---- MODULE Spec2Model ----
(***************************************************************************)
(* A model of beancount_importer_volksbank.py: the VolksbankImporter       *)
(* (identify / extract / guess_postings), the three CSV parsers and the    *)
(* value codec.                                                            *)
(*                                                                         *)
(* Text is modelled as TLA+ strings, handled character by character with   *)
(* Len / SubSeq / \o.  A file is the sequence of its physical lines, each  *)
(* ending in "\n", as Python's "for line in f" yields them.                *)
(* Amounts are integers counting hundredths (cents): 65000 is 650.00.      *)
(* A Python exception is modelled as a value [exc |-> <its type>].         *)
(***************************************************************************)
EXTENDS Integers, Sequences, FiniteSets, TLC

None == "None"

\* The outcome of an evaluation: a value, or a raised exception (and no value).
Ok(v) == [exc |-> None, val |-> v]
Raise(e) == [exc |-> e, val |-> << >>]

(***************************************************************************)
(* Python's str operations.                                                *)
(***************************************************************************)

\* sub in s
Contains(s, sub) ==
    \E i \in 1..(Len(s) - Len(sub) + 1) : SubSeq(s, i, i + Len(sub) - 1) = sub

\* s.find(c) + 1 for a single character c: 0 when c does not occur
IndexOf(s, c) ==
    IF \E i \in 1..Len(s) : SubSeq(s, i, i) = c
    THEN CHOOSE i \in 1..Len(s) :
            /\ SubSeq(s, i, i) = c
            /\ \A j \in 1..(i - 1) : SubSeq(s, j, j) # c
    ELSE 0

\* s.replace(old, new) for a single character old
RECURSIVE Replace(_, _, _)
Replace(s, old, new) ==
    LET i == IndexOf(s, old)
    IN  IF i = 0 THEN s
        ELSE SubSeq(s, 1, i - 1) \o new \o Replace(SubSeq(s, i + 1, Len(s)), old, new)

\* s.split(sep) for a single character sep: never empty, "" splits to <<"">>
RECURSIVE Split(_, _)
Split(s, sep) ==
    LET i == IndexOf(s, sep)
    IN  IF i = 0 THEN <<s>>
        ELSE <<SubSeq(s, 1, i - 1)>> \o Split(SubSeq(s, i + 1, Len(s)), sep)

\* values[k] with Python's 0-based index k
At(values, k) == values[k + 1]

\* s[-n:]
Tail_(s, n) == SubSeq(s, IF Len(s) > n THEN Len(s) - n + 1 ELSE 1, Len(s))

IsSpace(c) == c \in {" ", "\n", "\t", "\r"}

\* s.strip(), which int(), float() and Decimal() apply to their argument
RECURSIVE Strip(_)
Strip(s) ==
    IF Len(s) = 0 THEN s
    ELSE IF IsSpace(SubSeq(s, 1, 1)) THEN Strip(SubSeq(s, 2, Len(s)))
    ELSE IF IsSpace(SubSeq(s, Len(s), Len(s))) THEN Strip(SubSeq(s, 1, Len(s) - 1))
    ELSE s

Digits == {"0", "1", "2", "3", "4", "5", "6", "7", "8", "9"}

DigitVal(c) ==
    CASE c = "0" -> 0 [] c = "1" -> 1 [] c = "2" -> 2 [] c = "3" -> 3
      [] c = "4" -> 4 [] c = "5" -> 5 [] c = "6" -> 6 [] c = "7" -> 7
      [] c = "8" -> 8 [] c = "9" -> 9

AllDigits(s) == \A i \in 1..Len(s) : SubSeq(s, i, i) \in Digits

\* the value of a string of decimal digits
RECURSIVE StrToNat(_)
StrToNat(s) ==
    IF Len(s) = 0 THEN 0
    ELSE 10 * StrToNat(SubSeq(s, 1, Len(s) - 1)) + DigitVal(SubSeq(s, Len(s), Len(s)))

\* int(s): surrounding whitespace stripped, an optional sign, then digits
PyInt(s) ==
    LET t == Strip(s)
        signed == Len(t) > 0 /\ SubSeq(t, 1, 1) \in {"-", "+"}
        body == IF signed THEN SubSeq(t, 2, Len(t)) ELSE t
    IN  IF Len(body) = 0 \/ ~AllDigits(body) THEN Raise("ValueError")
        ELSE IF signed /\ SubSeq(t, 1, 1) = "-" THEN Ok(0 - StrToNat(body))
        ELSE Ok(StrToNat(body))

\* float(s) and Decimal(s) on plain decimal numerals, in cents: whitespace
\* stripped, an optional sign, digits with at most one "." and at least one
\* digit.  The numerals of the files below carry at most two decimals.
PyNumber(s) ==
    LET t == Strip(s)
        signed == Len(t) > 0 /\ SubSeq(t, 1, 1) \in {"-", "+"}
        body == IF signed THEN SubSeq(t, 2, Len(t)) ELSE t
        parts == Split(body, ".")
        whole == parts[1]
        frac == IF Len(parts) = 2 THEN parts[2] ELSE ""
        frac2 == SubSeq(frac \o "00", 1, 2)
        cents == 100 * StrToNat(whole) + StrToNat(frac2)
    IN  IF \/ Len(parts) > 2
           \/ ~AllDigits(whole) \/ ~AllDigits(frac)
           \/ Len(whole) + Len(frac) = 0
        THEN Raise("ValueError")
        ELSE IF signed /\ SubSeq(t, 1, 1) = "-" THEN Ok(0 - cents)
        ELSE Ok(cents)

\* beancount's D(s): "" is zero, "," and " " are dropped, then Decimal()
D(s) ==
    IF s = "" THEN Ok(0)
    ELSE PyNumber(Replace(Replace(s, ",", ""), " ", ""))

(***************************************************************************)
(* The value codec.                                                        *)
(***************************************************************************)

\* a variant of convert_value: the Soll/Haben marker is ignored
convert_value_Unsigned(value, soll_haben) ==
    Replace(Replace(Replace(value, ".", ""), ",", "."), "\"", "")

convert_value(value, soll_haben) ==
    (IF Contains(soll_haben, "S") THEN "-" ELSE "")
        \o Replace(Replace(Replace(value, ".", ""), ",", "."), "\"", "")

convert_value2(value) == Replace(Replace(value, ".", ""), ",", ".")

IsLeap(y) == (y % 4 = 0 /\ y % 100 # 0) \/ y % 400 = 0

DaysInMonth(y, m) ==
    IF m = 2 THEN (IF IsLeap(y) THEN 29 ELSE 28)
    ELSE IF m \in {4, 6, 9, 11} THEN 30 ELSE 31

\* datetime.date(year, month, day)
PyDate(y, m, d) ==
    IF y \in 1..9999 /\ m \in 1..12 /\ d \in 1..DaysInMonth(y, m)
    THEN Ok([year |-> y, month |-> m, day |-> d])
    ELSE Raise("ValueError")

convert_date(date) ==
    LET parts == Split(Replace(date, "\"", ""), ".")
    IN  IF Len(parts) # 3 THEN Raise("ValueError")
        ELSE LET day == PyInt(parts[1])
                 month == PyInt(parts[2])
                 year == PyInt(parts[3])
             IN  IF day.exc # None \/ month.exc # None \/ year.exc # None
                 THEN Raise("ValueError")
                 ELSE PyDate(year.val, month.val, day.val)

\* a variant of PlusOneDay: the day is not added
PlusOneDay_Same(dt) == Ok(dt)

\* date + datetime.timedelta(days=1)
PlusOneDay(dt) ==
    IF dt.day < DaysInMonth(dt.year, dt.month)
    THEN Ok([dt EXCEPT !.day = dt.day + 1])
    ELSE IF dt.month < 12 THEN Ok([year |-> dt.year, month |-> dt.month + 1, day |-> 1])
    ELSE IF dt.year < 9999 THEN Ok([year |-> dt.year + 1, month |-> 1, day |-> 1])
    ELSE Raise("OverflowError")

(***************************************************************************)
(* The importer's configuration (the arguments of __init__).               *)
(***************************************************************************)

account == "Assets:Bank"
default_adjacent_account == "Unknown:account"
currency == "EUR"
flag == "!"

Posting(acc, number) == [account |-> acc, number |-> number, currency |-> currency]

(***************************************************************************)
(* initialize_guessing: the payee -> posting groups dictionary.            *)
(* target_journal is None or a file name; loaded is the sequence of        *)
(* directives loader.load_file returns for it: [kind, date, payee,         *)
(* postings], a posting being [account, number]; payee is None or a        *)
(* string.                                                                 *)
(***************************************************************************)

\* sorted(entries, key = lambda e: e.date): ascending and stable
RECURSIVE SortedByDate(_)
SortedByDate(entries) ==
    IF Len(entries) = 0 THEN << >>
    ELSE LET e == entries[Len(entries)]
             init == SortedByDate(SubSeq(entries, 1, Len(entries) - 1))
             k == Cardinality({i \in 1..Len(init) : init[i].date <= e.date})
         IN  SubSeq(init, 1, k) \o <<e>> \o SubSeq(init, k + 1, Len(init))

\* the filters of the loop body: the entry is kept
Indexed(entry) ==
    /\ \E i \in 1..Len(entry.postings) : entry.postings[i].account = account
    /\ entry.payee # None
    /\ Len(entry.payee) # 0

\* the loop over the sorted entries, from the dictionary built so far
RECURSIVE AppendGroups(_, _)
AppendGroups(entries, dict) ==
    IF Len(entries) = 0 THEN dict
    ELSE LET entry == Head(entries)
             old == IF entry.payee \in DOMAIN dict THEN dict[entry.payee] ELSE << >>
         IN  IF ~Indexed(entry) THEN AppendGroups(Tail(entries), dict)
             ELSE AppendGroups(Tail(entries),
                      [p \in DOMAIN dict \cup {entry.payee} |->
                          IF p = entry.payee THEN Append(old, entry.postings)
                          ELSE dict[p]])

initialize_guessing(target_journal, loaded) ==
    IF target_journal = None THEN << >>
    ELSE AppendGroups(
            SortedByDate(SelectSeq(loaded, LAMBDA e : e.kind = "Transaction")),
            << >>)

(***************************************************************************)
(* guess_postings.                                                         *)
(***************************************************************************)

Abs(n) == IF n < 0 THEN 0 - n ELSE n

\* a variant of LastGroup: the oldest group, posting_dict[payee][0]
LastGroup_First(groups) == groups[1]

\* self.posting_dict[payee][-1]
LastGroup(groups) == groups[Len(groups)]

\* prev_posting_had_reversed_signs after the first loop: the value the last
\* leg on the importing account gave it; reading it raises when no leg
\* assigned it
RECURSIVE ReversedSigns(_, _)
ReversedSigns(previous_postings, total_transaction_value) ==
    IF Len(previous_postings) = 0 THEN Raise("UnboundLocalError")
    ELSE LET prev_posting == previous_postings[Len(previous_postings)]
         IN  IF prev_posting.account = account
             THEN Ok(0 > prev_posting.number * total_transaction_value)
             ELSE ReversedSigns(SubSeq(previous_postings, 1, Len(previous_postings) - 1),
                                total_transaction_value)

\* s = sum([float(u.number) for u in units if u.number > 0])
RECURSIVE PositiveSum(_)
PositiveSum(previous_postings) ==
    IF Len(previous_postings) = 0 THEN 0
    ELSE (IF Head(previous_postings).number > 0 THEN Head(previous_postings).number ELSE 0)
            + PositiveSum(Tail(previous_postings))

\* round(num / den, 0) for num >= 0, den > 0, as a set: the nearest integer,
\* and at an exact tie either neighbour (the float product share * abs(v)
\* lies just above or just below the tie, and round(x, 2) follows it)
RoundHalf(num, den) ==
    LET q == num \div den
        r == num % den
    IN  IF 2 * r < den THEN {q}
        ELSE IF 2 * r > den THEN {q + 1}
        ELSE {q, q + 1}

\* round(share * abs(total_transaction_value), 2) in cents, share being
\* number / s, negated when reversed
ShareAmounts(number, s, reversed, total_transaction_value) ==
    LET sign == (IF number < 0 THEN -1 ELSE 1) * (IF reversed THEN -1 ELSE 1)
    IN  {sign * m : m \in RoundHalf(Abs(number) * Abs(total_transaction_value), s)}

\* the second loop: the lists new_postings can be
RECURSIVE ScaledPostings(_, _, _, _)
ScaledPostings(previous_postings, s, reversed, total_transaction_value) ==
    IF Len(previous_postings) = 0 THEN {<< >>}
    ELSE {<<Posting(Head(previous_postings).account, a)>> \o rest :
              a \in ShareAmounts(Head(previous_postings).number, s, reversed,
                                 total_transaction_value),
              rest \in ScaledPostings(Tail(previous_postings), s, reversed,
                                      total_transaction_value)}

\* i after the loop of lines 86-89, as a 1-based position
ImportingIndex(new_postings) ==
    LET js == {j \in 1..Len(new_postings) : new_postings[j].account = account}
    IN  IF js = {} THEN 1 ELSE CHOOSE j \in js : \A k \in js : k <= j

\* new_postings.append(new_postings.pop(i))
MoveToEnd(new_postings, i) ==
    SubSeq(new_postings, 1, i - 1) \o SubSeq(new_postings, i + 1, Len(new_postings))
        \o <<new_postings[i]>>

\* a variant of DefaultPostings: the importing account's posting first
DefaultPostings_Swapped(total_transaction_value) ==
    << Posting(account, total_transaction_value),
       Posting(default_adjacent_account, 0 - total_transaction_value) >>

\* the two postings of the else branch
DefaultPostings(total_transaction_value) ==
    << Posting(default_adjacent_account, 0 - total_transaction_value),
       Posting(account, total_transaction_value) >>

\* guess_postings(payee, total_transaction_value): the set of its outcomes
guess_postings(posting_dict, payee, total_transaction_value) ==
    IF payee \in DOMAIN posting_dict
    THEN LET previous_postings == LastGroup(posting_dict[payee])
             reversed == ReversedSigns(previous_postings, total_transaction_value)
             s == PositiveSum(previous_postings)
         IN  IF Len(previous_postings) = 0 THEN {Raise("IndexError")}
             ELSE IF s = 0 THEN {Raise("ZeroDivisionError")}
             ELSE IF reversed.exc # None THEN {Raise(reversed.exc)}
             ELSE {Ok(MoveToEnd(new_postings, ImportingIndex(new_postings))) :
                      new_postings \in ScaledPostings(previous_postings, s, reversed.val,
                                                      total_transaction_value)}
    ELSE {Ok(DefaultPostings(total_transaction_value))}

(***************************************************************************)
(* identify.                                                               *)
(***************************************************************************)

header_version1 == "\"Buchungstag\";\"Valuta\";\"Auftraggeber/Zahlungsempfänger\";\"Empfänger/Zahlungspflichtiger\";\"Konto-Nr.\";\"IBAN\";\"BLZ\";\"BIC\";\"Vorgang/Verwendungszweck\";\"Kundenreferenz\";\"Währung\";\"Umsatz\";\" \""
header_version2 == "Buchungstag;Valuta;Textschlüssel;Primanota;Zahlungsempfänger;ZahlungsempfängerKto;ZahlungsempfängerIBAN;ZahlungsempfängerBLZ;ZahlungsempfängerBIC;Vorgang/Verwendungszweck;Kundenreferenz;Währung;Umsatz;Soll/Haben"
header_version3 == "Bezeichnung Auftragskonto;IBAN Auftragskonto;BIC Auftragskonto;Bankname Auftragskonto;Buchungstag;Valutadatum;Name Zahlungsbeteiligter;IBAN Zahlungsbeteiligter;BIC (SWIFT-Code) Zahlungsbeteiligter;Buchungstext;Verwendungszweck;Betrag;Waehrung;Saldo nach Buchung;Bemerkung;Kategorie;Steuerrelevant;Glaeubiger ID;Mandatsreferenz"
header_version4 == "Bezeichnung Auftragskonto;IBAN Auftragskonto;BIC Auftragskonto;Bankname Auftragskonto;Buchungstag;Valutadatum;Name Zahlungsbeteiligter;IBAN Zahlungsbeteiligter;BIC (SWIFT-Code) Zahlungsbeteiligter;Buchungstext;Verwendungszweck;Betrag;Waehrung;Saldo nach Buchung;Bemerkung;Gekennzeichneter Umsatz;Glaeubiger ID;Mandatsreferenz"

\* self.file_format_version = None
NoVersion == 0

\* the if / elif chain on one line: the version it sets, NoVersion when no
\* branch is taken
LineVersion(line) ==
    IF Contains(line, header_version1) THEN 1
    ELSE IF Contains(line, header_version2) THEN 2
    ELSE IF Contains(line, header_version3) THEN 3
    ELSE IF Contains(line, header_version4) THEN 4
    ELSE NoVersion

\* a variant of ScanLines: the loop goes on after a match, the last line
\* that sets a version wins
RECURSIVE ScanLines_Last(_)
ScanLines_Last(lines) ==
    IF Len(lines) = 0 THEN NoVersion
    ELSE IF LineVersion(lines[Len(lines)]) # NoVersion THEN LineVersion(lines[Len(lines)])
    ELSE ScanLines_Last(SubSeq(lines, 1, Len(lines) - 1))

\* the loop over the lines: the version of the first line that sets one
RECURSIVE ScanLines(_)
ScanLines(lines) ==
    IF Len(lines) = 0 THEN NoVersion
    ELSE IF LineVersion(Head(lines)) # NoVersion THEN LineVersion(Head(lines))
    ELSE ScanLines(Tail(lines))

(***************************************************************************)
(* The parsers, one loop iteration at a time.  The locals of a parser are  *)
(* the record [header, collector, linenumber, buchungstag,                 *)
(* auftraggeber_empfaenger, verwendungszweck, betrag, kontostand,          *)
(* linenumbers, endsaldo]; buchungstext only ever holds '' and is never    *)
(* read.  endsaldo is <<date, amount, linenumber>>, or << >> for None.      *)
(***************************************************************************)

\* endsaldo = None
NoEndsaldo == << >>

NewLocals ==
    [ header |-> TRUE, collector |-> "", linenumber |-> -1,
      buchungstag |-> << >>, auftraggeber_empfaenger |-> << >>,
      verwendungszweck |-> << >>, betrag |-> << >>, kontostand |-> << >>,
      linenumbers |-> << >>, endsaldo |-> NoEndsaldo ]

\* the appends of one record
AppendRecord(l, date, payee, purpose, amount, balance) ==
    [l EXCEPT !.buchungstag = Append(@, date),
              !.auftraggeber_empfaenger = Append(@, payee),
              !.verwendungszweck = Append(@, purpose),
              !.betrag = Append(@, amount),
              !.kontostand = Append(@, balance),
              !.linenumbers = Append(@, l.linenumber)]

\* parse_csv_file_v1, the branch taken once the collector holds a marker
v1_record(l, collector) ==
    IF Contains(collector, "Anfangssaldo") THEN Ok(l)
    ELSE IF Contains(collector, "Endsaldo")
    THEN LET result == Split(collector, ";")
         IN  IF Len(result) < 13 THEN Raise("IndexError")
             ELSE LET date == convert_date(At(result, 0))
                      amount == convert_value(At(result, 11),
                                              Replace(At(result, 12), "\"", ""))
                  IN  IF date.exc # None THEN Raise(date.exc)
                      ELSE Ok([l EXCEPT !.endsaldo = <<date.val, amount, l.linenumber>>])
    ELSE LET values == Split(collector, ";")
             date == convert_date(At(values, 0))
         IN  IF date.exc # None THEN Raise(date.exc)
             ELSE IF Len(values) < 12 THEN Raise("IndexError")
             ELSE Ok(AppendRecord(l, date.val,
                                  Replace(At(values, 3), "\"", ""),
                                  Replace(At(values, 8), "\"", ""),
                                  convert_value(At(values, 11), Tail_(collector, 3)),
                                  None))

\* a variant of v1_line: the collector is not reset after a record
v1_line_KeepBuffer(locals, line) ==
    LET l == [locals EXCEPT !.linenumber = @ + 1]
    IN  IF l.header
        THEN Ok(IF Contains(line, "Valuta") THEN [l EXCEPT !.header = FALSE] ELSE l)
        ELSE IF Len(line) = 0 THEN Ok(l)
        ELSE LET collector == l.collector \o Replace(line, "\n", " ")
             IN  IF Contains(collector, "\"S\"") \/ Contains(collector, "\"H\"")
                 THEN LET done == v1_record(l, collector)
                      IN  IF done.exc # None THEN done
                          ELSE Ok([done.val EXCEPT !.collector = collector])
                 ELSE Ok([l EXCEPT !.collector = collector])

\* parse_csv_file_v1, the loop body on one line
v1_line(locals, line) ==
    LET l == [locals EXCEPT !.linenumber = @ + 1]
    IN  IF l.header
        THEN Ok(IF Contains(line, "Valuta") THEN [l EXCEPT !.header = FALSE] ELSE l)
        ELSE IF Len(line) = 0 THEN Ok(l)
        ELSE LET collector == l.collector \o Replace(line, "\n", " ")
             IN  IF Contains(collector, "\"S\"") \/ Contains(collector, "\"H\"")
                 THEN LET done == v1_record(l, collector)
                      IN  IF done.exc # None THEN done
                          ELSE Ok([done.val EXCEPT !.collector = ""])
                 ELSE Ok([l EXCEPT !.collector = collector])

\* parse_csv_file_v2, the loop body on one line
v2_line(locals, line) ==
    LET l == [locals EXCEPT !.linenumber = @ + 1]
        values == Split(line, ";")
    IN  IF l.header
        THEN Ok(IF Contains(line, "Valuta") THEN [l EXCEPT !.header = FALSE] ELSE l)
        ELSE IF Len(At(values, 0)) = 0 THEN Ok(l)
        ELSE IF Len(values) < 11 THEN Raise("IndexError")
        ELSE IF At(values, 10) = "Endsaldo"
        THEN LET date == convert_date(At(values, 0))
             IN  IF date.exc # None THEN Raise(date.exc)
                 ELSE IF Len(values) < 14 THEN Raise("IndexError")
                 ELSE Ok([l EXCEPT !.endsaldo =
                            <<date.val, convert_value(At(values, 12), At(values, 13)),
                              l.linenumber>>])
        ELSE IF At(values, 10) = "Anfangssaldo" THEN Ok(l)
        ELSE LET date == convert_date(At(values, 0))
             IN  IF date.exc # None THEN Raise(date.exc)
                 ELSE IF Len(values) < 14 THEN Raise("IndexError")
                 ELSE Ok(AppendRecord(l, date.val, At(values, 4), At(values, 9),
                                      convert_value(At(values, 12), At(values, 13)),
                                      None))

\* parse_csv_file_v3, the loop body on one line
v3_line(locals, line) ==
    LET l == [locals EXCEPT !.linenumber = @ + 1]
        values == Split(line, ";")
    IN  IF l.header
        THEN Ok(IF Contains(line, "Mandatsreferenz") THEN [l EXCEPT !.header = FALSE] ELSE l)
        ELSE IF Len(At(values, 0)) = 0 THEN Ok(l)
        ELSE IF Len(values) < 5 THEN Raise("IndexError")
        ELSE LET date == convert_date(At(values, 4))
             IN  IF date.exc # None THEN Raise(date.exc)
                 ELSE IF Len(values) < 14 THEN Raise("IndexError")
                 ELSE Ok(AppendRecord(l, date.val, At(values, 6), At(values, 10),
                                      convert_value2(At(values, 11)),
                                      convert_value2(At(values, 13))))

\* parse_csv_file_v3 after its loop: endsaldo from the first record
v3_endsaldo(l) ==
    IF Len(l.buchungstag) = 0 THEN Raise("IndexError")
    ELSE Ok([l EXCEPT !.endsaldo =
                <<l.buchungstag[1], l.kontostand[1], l.linenumbers[1]>>])

\* the parser extract calls for a format version
ParserOf(version) == IF version = 4 THEN 3 ELSE version

parse_line(version, locals, line) ==
    IF ParserOf(version) = 1 THEN v1_line(locals, line)
    ELSE IF ParserOf(version) = 2 THEN v2_line(locals, line)
    ELSE v3_line(locals, line)

(***************************************************************************)
(* extract, after the parse: the transactions and the balance.             *)
(***************************************************************************)

Transaction(filename, lineno, date, payee, narration, postings) ==
    [ type |-> "Transaction", meta |-> [filename |-> filename, lineno |-> lineno],
      date |-> date, flag |-> flag, payee |-> payee, narration |-> narration,
      postings |-> postings ]

Balance(filename, lineno, date, number) ==
    [ type |-> "Balance", meta |-> [filename |-> filename, lineno |-> lineno],
      date |-> date, account |-> account,
      amount |-> [number |-> number, currency |-> currency] ]

\* the loop "for i in range(len(buchungstag))" from record i on: the lists of
\* transactions it can append, or the exception that ends it
RECURSIVE create_transactions(_, _, _, _)
create_transactions(posting_dict, filename, l, i) ==
    IF i > Len(l.buchungstag) THEN {Ok(<< >>)}
    ELSE LET value == PyNumber(l.betrag[i])
         IN  IF value.exc # None THEN {Raise(value.exc)}
             ELSE UNION {
                    IF postings.exc # None THEN {Raise(postings.exc)}
                    ELSE { IF rest.exc # None THEN rest
                           ELSE Ok(<<Transaction(filename, l.linenumbers[i],
                                                 l.buchungstag[i],
                                                 l.auftraggeber_empfaenger[i],
                                                 l.verwendungszweck[i],
                                                 postings.val)>> \o rest.val) :
                           rest \in create_transactions(posting_dict, filename, l, i + 1) } :
                    postings \in guess_postings(posting_dict,
                                                l.auftraggeber_empfaenger[i], value.val) }

\* "#create balance": the entry appended last, or the exception
create_balance(filename, endsaldo) ==
    IF endsaldo = NoEndsaldo THEN Raise("TypeError")
    ELSE LET date == PlusOneDay(endsaldo[1])
             number == D(endsaldo[2])
         IN  IF date.exc # None THEN Raise(date.exc)
             ELSE IF number.exc # None THEN Raise(number.exc)
             ELSE Ok(Balance(filename, endsaldo[3], date.val, number.val))

\* a variant of create_entries: a failing balance is left out
create_entries_Partial(posting_dict, filename, l) ==
    { IF txns.exc # None THEN txns
      ELSE LET balance == create_balance(filename, l.endsaldo)
           IN  IF balance.exc # None THEN Ok(txns.val)
               ELSE Ok(Append(txns.val, balance.val)) :
      txns \in create_transactions(posting_dict, filename, l, 1) }

\* lines 134-144: the outcomes of extract once the file is parsed
create_entries(posting_dict, filename, l) ==
    { IF txns.exc # None THEN txns
      ELSE LET balance == create_balance(filename, l.endsaldo)
           IN  IF balance.exc # None THEN balance
               ELSE Ok(Append(txns.val, balance.val)) :
      txns \in create_transactions(posting_dict, filename, l, 1) }

(***************************************************************************)
(* The files the importer is run on: name -> physical lines.               *)
(***************************************************************************)

Files ==
    [ v1 |-> << "\"Volksbank eG\";\"Umsatzanzeige\"\n",
                header_version1 \o "\n",
                "\"01.03.2022\";\"01.03.2022\";\"Me\";\"Landlord\";\"1\";\"DE1\";\"2\";\"BIC\";\"Rent\n",
                "March\";\"\";\"EUR\";\"650,00\";\"S\"\n",
                "\"02.03.2022\";\"02.03.2022\";\"Me\";\"Employer\";\"3\";\"DE2\";\"4\";\"BIC\";\"Salary\";\"\";\"EUR\";\"1.000,00\";\"H\"\n",
                "\n",
                "\"01.03.2022\";;;;;;;;;\"Anfangssaldo\";\"EUR\";\"850,00\";\"H\"\n",
                "\"02.03.2022\";;;;;;;;;\"Endsaldo\";\"EUR\";\"1.200,00\";\"H\"\n",
                "\"trailing text without a marker\n" >>,
      v1_padding |-> << header_version1 \o "\n",
                ";;;;;;;;;;;;\n",
                "\"01.03.2022\";\"01.03.2022\";\"Me\";\"Landlord\";\"1\";\"DE1\";\"2\";\"BIC\";\"Rent\";\"\";\"EUR\";\"650,00\";\"S\"\n",
                "\"02.03.2022\";;;;;;;;;\"Endsaldo\";\"EUR\";\"1.200,00\";\"H\"\n" >>,
      v1_no_endsaldo |-> << header_version1 \o "\n",
                "\"01.03.2022\";\"01.03.2022\";\"Me\";\"Landlord\";\"1\";\"DE1\";\"2\";\"BIC\";\"Rent\";\"\";\"EUR\";\"650,00\";\"S\"\n" >>,
      v2 |-> << header_version2 \o "\n",
                "01.03.2022;01.03.2022;;;Landlord;;;;;Rent;;EUR;650,00;S\n",
                "01.03.2022;;;;;;;;;;Endsaldo;EUR;1200,00;H\n" >>,
      v2_signed |-> << header_version2 \o "\n",
                "01.03.2022;01.03.2022;;;Landlord;;;;;Rent;;EUR;-650,00;S\n",
                "01.03.2022;;;;;;;;;;Endsaldo;EUR;1200,00;H\n" >>,
      v2_full |-> << header_version2 \o "\n",
                ";;;;;;;;;;;;;\n",
                "28.02.2022;;;;;;;;;;Anfangssaldo;EUR;1.850,00;H\n",
                "28.02.2022;28.02.2022;;;Employer;;;;;Salary;;EUR;1.000,00;H\n",
                "28.02.2022;28.02.2022;;;Landlord;;;;;Rent;;EUR;650,00;S\n",
                "28.02.2022;;;;;;;;;;Endsaldo;EUR;2.200,00;H\n" >>,
      v2_blank |-> << header_version2 \o "\n",
                "\n",
                "01.03.2022;01.03.2022;;;Landlord;;;;;Rent;;EUR;650,00;S\n",
                "01.03.2022;;;;;;;;;;Endsaldo;EUR;1200,00;H\n" >>,
      v2_no_endsaldo |-> << header_version2 \o "\n",
                "01.03.2022;01.03.2022;;;Landlord;;;;;Rent;;EUR;650,00;S\n" >>,
      v2_bad_date |-> << header_version2 \o "\n",
                "01.03.2022;01.03.2022;;;Employer;;;;;Salary;;EUR;1.000,00;H\n",
                "31.02.2022;31.02.2022;;;Landlord;;;;;Rent;;EUR;650,00;S\n",
                "01.03.2022;;;;;;;;;;Endsaldo;EUR;1200,00;H\n" >>,
      v2_bad_amount |-> << header_version2 \o "\n",
                "01.03.2022;01.03.2022;;;Employer;;;;;Salary;;EUR;1.000,00;H\n",
                "01.03.2022;01.03.2022;;;Landlord;;;;;Rent;;EUR;6,50,00;S\n",
                "01.03.2022;;;;;;;;;;Endsaldo;EUR;1200,00;H\n" >>,
      v3 |-> << header_version3 \o "\n",
                "Giro;DE1;BIC;VB;02.03.2022;02.03.2022;Shop;DE2;BIC2;Lastschrift;Food;-12,50;EUR;1.187,50;;;;;\n",
                ";;;;;;;;;;;;;;;;;;\n",
                "Giro;DE1;BIC;VB;01.03.2022;01.03.2022;Landlord;DE3;BIC3;Dauerauftrag;Rent;-650,00;EUR;1.200,00;;;;;\n" >>,
      v4 |-> << header_version4 \o "\n",
                "Giro;DE1;BIC;VB;31.12.2021;31.12.2021;Employer;DE4;BIC4;Gutschrift;Salary;1.000,00;EUR;1.850,00;;;;\n" >>,
      v3_blank |-> << header_version3 \o "\n",
                "\n",
                "Giro;DE1;BIC;VB;01.03.2022;01.03.2022;Landlord;DE3;BIC3;Dauerauftrag;Rent;-650,00;EUR;1.200,00;;;;;\n" >>,
      late_header |-> << "Umsätze\n",
                "Konto;" \o header_version2 \o ";\n",
                header_version1 \o "\n",
                "01.03.2022;;;;;;;;;;Endsaldo;EUR;1200,00;H\n" >>,
      two_headers |-> << header_version4 \o ";" \o header_version3 \o "\n" >>,
      other |-> << "Date,Payee,Amount\n",
                "2022-03-01,Landlord,-650.00\n" >>,
      empty |-> << >> ]

FileNames == DOMAIN Files

\* what the loop of identify finds in each file
Detected == [f \in FileNames |-> ScanLines(Files[f])]

(***************************************************************************)
(* The journals the importer is constructed with.                          *)
(***************************************************************************)

Leg(acc, number) == [account |-> acc, number |-> number]

Txn(date, payee, postings) ==
    [kind |-> "Transaction", date |-> date, payee |-> payee, postings |-> postings]

\* the journal files: one with a history for Landlord, one whose latest
\* Landlord transaction has no positive leg
Journals ==
    [ history |->
      << Txn(20220201, "Landlord", <<Leg(account, -6000), Leg("Expenses:Rent", 6000)>>),
         [kind |-> "Open", date |-> 20220101, payee |-> None, postings |-> << >>],
         Txn(20220101, "Landlord", <<Leg("Expenses:Rent", 5000), Leg("Expenses:Heating", 1000),
                                     Leg(account, -6000)>>),
         Txn(20220115, None, <<Leg(account, -100), Leg("Expenses:Fees", 100)>>) >>,
      zero |->
      << Txn(20220101, "Landlord", <<Leg(account, -6000), Leg("Expenses:Rent", 6000)>>),
         Txn(20220201, "Landlord", <<Leg(account, 0), Leg("Expenses:Rent", 0)>>) >> ]

(***************************************************************************)
(* The importer as a state machine.                                        *)
(***************************************************************************)

VARIABLES
    target_journal,        \* self.target_journal
    loaded,                \* the directives loader.load_file returned for it
    posting_dict,          \* self.posting_dict
    file_format_version,   \* self.file_format_version
    pc,                    \* "idle", or where the running extract call is
    file,                  \* the file of the running extract call
    locals,                \* the locals of the running parser
    identified,            \* the latest identify call: its file and result
    ret,                   \* the latest call and, once it is done, its outcome
    guess                  \* the direct guess_postings call and its outcome

vars == <<target_journal, loaded, posting_dict, file_format_version, pc, file, locals,
          identified, ret, guess>>

\* no guess_postings call is under way
NoGuess == [payee |-> None, value |-> 0, exc |-> None, val |-> << >>]

\* __init__
InitImporter(journal, entries) ==
    /\ target_journal = journal
    /\ loaded = entries
    /\ posting_dict = initialize_guessing(journal, entries)
    /\ file_format_version = NoVersion
    /\ pc = "idle"
    /\ file = None
    /\ locals = NewLocals
    /\ identified = [file |-> None, result |-> FALSE]
    /\ ret = [op |-> None, file |-> None, done |-> FALSE, exc |-> None, val |-> << >>]
    /\ guess = NoGuess

Init ==
    \/ InitImporter(None, << >>)
    \/ \E journal \in DOMAIN Journals : InitImporter(journal, Journals[journal])

\* the running extract call ends: it raises exc or returns val
Finish(exc, val) ==
    /\ ret' = [op |-> "extract", file |-> file, done |-> TRUE, exc |-> exc, val |-> val]
    /\ pc' = "idle"
    /\ file' = None
    /\ locals' = NewLocals

\* identify(file)
Identify(f) ==
    /\ pc = "idle"
    /\ LET version == Detected[f]
       IN  /\ file_format_version' =
                 IF version # NoVersion THEN version ELSE file_format_version
           /\ identified' = [file |-> f, result |-> version # NoVersion]
           /\ ret' = [op |-> "identify", file |-> f, done |-> TRUE, exc |-> None,
                      val |-> version # NoVersion]
    /\ UNCHANGED <<target_journal, loaded, posting_dict, pc, file, locals, guess>>

\* extract(file): the dispatch of lines 123-132
Extract(f) ==
    /\ pc = "idle"
    /\ IF file_format_version \in 1..4
       THEN /\ pc' = "parse"
            /\ file' = f
            /\ locals' = NewLocals
            /\ ret' = [op |-> "extract", file |-> f, done |-> FALSE, exc |-> None,
                       val |-> << >>]
       ELSE /\ ret' = [op |-> "extract", file |-> f, done |-> TRUE, exc |-> "IOError",
                       val |-> << >>]
            /\ UNCHANGED <<pc, file, locals>>
    /\ UNCHANGED <<target_journal, loaded, posting_dict, file_format_version, identified, guess>>

\* the line the parser reads next
MoreLines == locals.linenumber + 1 < Len(Files[file])
NextLine == Files[file][locals.linenumber + 2]

\* one iteration of "for line in f"
ParseLine ==
    /\ pc = "parse"
    /\ MoreLines
    /\ LET step == parse_line(file_format_version, locals, NextLine)
       IN  IF step.exc # None
           THEN Finish(step.exc, << >>)
           ELSE /\ locals' = step.val
                /\ UNCHANGED <<pc, file, ret>>
    /\ UNCHANGED <<target_journal, loaded, posting_dict, file_format_version, identified, guess>>

\* the parser leaves its loop and returns its lists
ParseReturn ==
    /\ pc = "parse"
    /\ ~MoreLines
    /\ IF ParserOf(file_format_version) = 3
       THEN LET done == v3_endsaldo(locals)
            IN  IF done.exc # None
                THEN Finish(done.exc, << >>)
                ELSE /\ locals' = done.val
                     /\ pc' = "create"
                     /\ UNCHANGED <<file, ret>>
       ELSE /\ pc' = "create"
            /\ UNCHANGED <<file, locals, ret>>
    /\ UNCHANGED <<target_journal, loaded, posting_dict, file_format_version, identified, guess>>

\* lines 134-144
CreateEntries ==
    /\ pc = "create"
    /\ \E out \in create_entries(posting_dict, file, locals) : Finish(out.exc, out.val)
    /\ UNCHANGED <<target_journal, loaded, posting_dict, file_format_version, identified, guess>>

Next ==
    \/ \E f \in FileNames : Identify(f)
    \/ \E f \in FileNames : Extract(f)
    \/ ParseLine
    \/ ParseReturn
    \/ CreateEntries

Spec == Init /\ [][Next]_vars

(***************************************************************************)
(* guess_postings on its own: the importer is constructed on a journal     *)
(* drawn from bounded sets and guess_postings is called on it.             *)
(***************************************************************************)

MaxAmount == 2     \* leg amounts range over -MaxAmount..MaxAmount cents
MaxLegs == 3       \* legs of the transaction of a one-entry journal
MaxEntries == 2    \* entries of a journal of two-leg transactions
MaxValue == 3      \* total_transaction_value ranges over -MaxValue..MaxValue cents

RECURSIVE SeqsOfLen(_, _)
SeqsOfLen(S, n) ==
    IF n = 0 THEN {<< >>}
    ELSE {Append(q, e) : q \in SeqsOfLen(S, n - 1), e \in S}

SeqsUpTo(S, lo, hi) == UNION {SeqsOfLen(S, n) : n \in lo..hi}

\* one transaction of payee P with any legs on two accounts
OneEntryJournals ==
    { <<Txn(1, "P", postings)>> :
        postings \in SeqsUpTo({Leg(a, n) : a \in {account, "Expenses:A"},
                                           n \in (0 - MaxAmount)..MaxAmount},
                              1, MaxLegs) }

\* several transactions with any payee and date, each with two legs that
\* name the transaction: on the importing account or not
ShortEntries ==
    { Txn(date, payee, postings) :
        date \in {1, 2},
        payee \in {"P", "Q", "", None},
        postings \in { <<Leg("Expenses:A", -1), Leg(account, 1)>>,
                       <<Leg("Expenses:B", -1), Leg(account, 1)>>,
                       <<Leg("Expenses:A", -1), Leg("Expenses:B", 1)>> } }

HistoryInputs == OneEntryJournals \cup SeqsUpTo(ShortEntries, 2, MaxEntries)

GuessPayees == {"P", "Q"}
GuessValues == (0 - MaxValue)..MaxValue

InitGuess ==
    \/ InitImporter(None, << >>)
    \/ \E entries \in HistoryInputs : InitImporter("journal", entries)

\* guess_postings(payee, total_transaction_value)
GuessPostings(payee, total_transaction_value) ==
    /\ pc = "idle"
    /\ guess = NoGuess
    /\ \E out \in guess_postings(posting_dict, payee, total_transaction_value) :
          guess' = [payee |-> payee, value |-> total_transaction_value,
                    exc |-> out.exc, val |-> out.val]
    /\ UNCHANGED <<target_journal, loaded, posting_dict, file_format_version, pc, file,
                   locals, identified, ret>>

\* the caller is done with the postings guess_postings gave it
GuessTaken ==
    /\ guess # NoGuess
    /\ guess' = NoGuess
    /\ UNCHANGED <<target_journal, loaded, posting_dict, file_format_version, pc, file,
                   locals, identified, ret>>

NextGuess ==
    \/ \E payee \in GuessPayees, v \in GuessValues : GuessPostings(payee, v)
    \/ GuessTaken

SpecGuess == InitGuess /\ [][NextGuess]_vars

(***************************************************************************)
(* Properties.                                                             *)
(***************************************************************************)

\* the transactions of the loaded journal that carry the payee and a leg on
\* the importing account
HistoryOf(payee) ==
    IF target_journal = None THEN {}
    ELSE { i \in DOMAIN loaded :
             /\ loaded[i].kind = "Transaction"
             /\ loaded[i].payee = payee
             /\ \E k \in DOMAIN loaded[i].postings :
                   loaded[i].postings[k].account = account }

GuessCalled == guess.payee # None

\* C1: for a payee without history (every payee when no journal is
\* configured) guess_postings returns exactly the default adjacent account
\* with -v and then the importing account with +v, in the configured currency.
C1_DefaultPostings ==
    (GuessCalled /\ HistoryOf(guess.payee) = {}) =>
        /\ guess.exc = None
        /\ guess.val =
             << [account |-> default_adjacent_account, number |-> 0 - guess.value,
                 currency |-> currency],
                [account |-> account, number |-> guess.value, currency |-> currency] >>

\* a payee without history is guessed on an importer whose journal holds
\* history for another payee
C1_Witness ==
    /\ GuessCalled
    /\ guess.value # 0
    /\ HistoryOf(guess.payee) = {}
    /\ DOMAIN posting_dict # {}

\* the legs of the payee's latest transaction: the greatest date, and among
\* equal dates the one that comes last in the journal
MostRecentGroup(payee) ==
    LET I == HistoryOf(payee)
        latest == CHOOSE i \in I :
                     \A j \in I : \/ loaded[j].date < loaded[i].date
                                  \/ loaded[j].date = loaded[i].date /\ j <= i
    IN  loaded[latest].postings

RECURSIVE PositiveTotal(_, _)
PositiveTotal(group, n) ==
    IF n = 0 THEN 0
    ELSE PositiveTotal(group, n - 1) + (IF group[n].number > 0 THEN group[n].number ELSE 0)

\* the last leg of the group on the importing account
ImportingLeg(group) ==
    CHOOSE k \in DOMAIN group :
        /\ group[k].account = account
        /\ \A j \in DOMAIN group : j > k => group[j].account # account

\* the historical leg the i-th returned posting comes from
SourceLeg(group, i) ==
    IF i = Len(group) THEN ImportingLeg(group)
    ELSE IF i < ImportingLeg(group) THEN i
    ELSE i + 1

\* r is num / den rounded to a nearest integer
Nearest(r, num, den) == 2 * Abs(r * den - num) <= den

\* C2: for a payee with history guess_postings uses the most recent group
\* only and returns one posting per leg, amount round(leg / s * abs(v), 2)
\* with s the sum of the strictly positive legs, negated exactly when the
\* importing leg's amount times v is negative; the order is kept but for the
\* last importing leg, which comes last.  (It returns unless s is zero.)
C2_ScaledMostRecentGroup ==
    (GuessCalled /\ HistoryOf(guess.payee) # {}) =>
        LET group == MostRecentGroup(guess.payee)
            n == Len(group)
            s == PositiveTotal(group, n)
            v == guess.value
            negate == group[ImportingLeg(group)].number * v < 0
        IN  /\ guess.exc = None <=> s # 0
            /\ guess.exc = None =>
                 /\ Len(guess.val) = n
                 /\ guess.val[n].account = account
                 /\ \A i \in 1..n :
                       LET leg == group[SourceLeg(group, i)]
                       IN  /\ guess.val[i].account = leg.account
                           /\ guess.val[i].currency = currency
                           /\ Nearest(guess.val[i].number,
                                      (IF negate THEN -1 ELSE 1) * leg.number * Abs(v), s)

\* the payee has two transactions in the journal, the later one first, with
\* different legs, and the guess for a negative value returns
C2_Witness ==
    /\ GuessCalled
    /\ guess.exc = None
    /\ guess.value < -1
    /\ Len(loaded) >= 2
    /\ HistoryOf(guess.payee) = {1, 2}
    /\ loaded[1].date > loaded[2].date
    /\ loaded[1].postings # loaded[2].postings

RECURSIVE Total(_, _)
Total(group, n) ==
    IF n = 0 THEN 0 ELSE Total(group, n - 1) + group[n].number

\* C10: whenever guess_postings returns, the importing account's leg at the
\* end of the list carries exactly the amount v; stated for the payees
\* without history and for those whose most recent group is balanced and has
\* one leg on the importing account.
C10_ImportingLegCarriesValue ==
    ( /\ GuessCalled
      /\ guess.exc = None
      /\ HistoryOf(guess.payee) # {} =>
            LET group == MostRecentGroup(guess.payee)
            IN  /\ Total(group, Len(group)) = 0
                /\ \A k \in DOMAIN group :
                      group[k].account = account => k = ImportingLeg(group) ) =>
        /\ guess.val[Len(guess.val)].account = account
        /\ guess.val[Len(guess.val)].number = guess.value

IdentifyDone == ret.op = "identify" /\ ret.done

Signatures ==
    <<header_version1, header_version2, header_version3, header_version4>>

\* C3: identify reports the variant of the first line that contains one of
\* the four signatures, the lowest variant among those the line contains,
\* and reports False when no line contains any.
C3_FirstSignature ==
    IdentifyDone =>
        LET lines == Files[ret.file]
            hits == { i \in DOMAIN lines :
                        \E k \in 1..4 : Contains(lines[i], Signatures[k]) }
        IN  IF hits = {} THEN ret.val = FALSE
            ELSE LET first == CHOOSE i \in hits : \A j \in hits : i <= j
                     found == { k \in 1..4 : Contains(lines[first], Signatures[k]) }
                 IN  /\ ret.val = TRUE
                     /\ file_format_version \in found
                     /\ \A k \in found : file_format_version <= k

\* a file whose second line holds the V2 signature and whose third line
\* holds the V1 signature is identified as V2
C3_Witness ==
    /\ IdentifyDone
    /\ ret.file = "late_header"
    /\ ret.val = TRUE
    /\ file_format_version = 2

ExtractDone == ret.op = "extract" /\ ret.done

\* the number of the day dt in the calendar
RECURSIVE DaysBeforeMonth(_, _)
DaysBeforeMonth(y, m) ==
    IF m = 1 THEN 0 ELSE DaysBeforeMonth(y, m - 1) + DaysInMonth(y, m - 1)

Ordinal(dt) ==
    365 * (dt.year - 1) + ((dt.year - 1) \div 4) - ((dt.year - 1) \div 100)
        + ((dt.year - 1) \div 400) + DaysBeforeMonth(dt.year, dt.month) + dt.day

\* C4: when extract returns on a parse of n records it returns n + 1
\* entries: the n transactions in the order of the records, each with its
\* record's date, payee, narration, the flag and line number, then one
\* balance on the importing account, dated the day after the closing
\* balance's date, for the closing balance's value.
C4_EntriesOfRecords ==
    [][ (pc = "create" /\ ret'.done /\ ret'.exc = None) =>
          LET n == Len(locals.buchungstag)
              entries == ret'.val
          IN  /\ Len(entries) = n + 1
              /\ \A i \in 1..n :
                    /\ entries[i].type = "Transaction"
                    /\ entries[i].date = locals.buchungstag[i]
                    /\ entries[i].payee = locals.auftraggeber_empfaenger[i]
                    /\ entries[i].narration = locals.verwendungszweck[i]
                    /\ entries[i].flag = flag
                    /\ entries[i].meta = [filename |-> file,
                                          lineno |-> locals.linenumbers[i]]
              /\ entries[n + 1].type = "Balance"
              /\ entries[n + 1].account = account
              /\ Ordinal(entries[n + 1].date) = Ordinal(locals.endsaldo[1]) + 1
              /\ entries[n + 1].amount =
                    [number |-> D(locals.endsaldo[2]).val, currency |-> currency]
      ]_vars

\* extract has returned two transactions and the balance of the last day of
\* a month
C4_Witness ==
    /\ ExtractDone
    /\ ret.exc = None
    /\ Len(ret.val) = 3
    /\ ret.val[1].type = "Transaction"
    /\ ret.val[2].type = "Transaction"
    /\ ret.val[3].type = "Balance"
    /\ ret.val[3].date = [year |-> 2022, month |-> 3, day |-> 1]
    /\ ret.val[1].date = [year |-> 2022, month |-> 2, day |-> 28]

\* what the end-to-end scenario expects of extract on the file f, parsed as
\* V2 with no history
EndToEndV2(f) ==
    (ExtractDone /\ ret.file = f /\ file_format_version = 2
        /\ identified = [file |-> f, result |-> TRUE] /\ DOMAIN posting_dict = {}) =>
        /\ ret.exc = None
        /\ Len(ret.val) = 2
        /\ ret.val[1].type = "Transaction"
        /\ ret.val[1].date = [year |-> 2022, month |-> 3, day |-> 1]
        /\ ret.val[1].payee = "Landlord"
        /\ ret.val[1].postings =
             << [account |-> default_adjacent_account, number |-> 65000,
                 currency |-> currency],
                [account |-> account, number |-> -65000, currency |-> currency] >>
        /\ ret.val[2].type = "Balance"
        /\ ret.val[2].date = [year |-> 2022, month |-> 3, day |-> 2]
        /\ ret.val[2].amount = [number |-> 120000, currency |-> currency]

\* C5 as stated: the data row carries the amount "-650,00" and the marker "S".
C5_SignedAmountScenario == EndToEndV2("v2_signed")

\* C5, amended: the data row carries the amount "650,00" and the marker "S";
\* the scenario then yields the transaction dated 2022-03-01 with postings
\* (default adjacent account, +650.00), (importing account, -650.00) and the
\* balance dated 2022-03-02 for 1200.00.
C5_UnsignedAmountScenario == EndToEndV2("v2")

C5_Witness ==
    /\ ExtractDone
    /\ ret.file = "v2"
    /\ file_format_version = 2
    /\ identified = [file |-> "v2", result |-> TRUE]
    /\ DOMAIN posting_dict = {}
    /\ ret.exc = None

NoEndsaldoRow(f) == \A i \in DOMAIN Files[f] : ~Contains(Files[f][i], "Endsaldo")

\* C6: extract either raises and returns no entry, or returns transactions
\* followed by the balance; it raises on a malformed date or amount, on a
\* zero positive sum in the matched group, and on a V1 or V2 file without an
\* Endsaldo row.
C6_AllOrNothing ==
    ExtractDone =>
        /\ ret.exc # None => ret.val = << >>
        /\ ret.exc = None =>
              /\ Len(ret.val) >= 1
              /\ ret.val[Len(ret.val)].type = "Balance"
              /\ \A i \in 1..(Len(ret.val) - 1) : ret.val[i].type = "Transaction"
        /\ (file_format_version \in {1, 2} /\ NoEndsaldoRow(ret.file)) => ret.exc # None
        /\ (file_format_version = 2 /\ ret.file \in {"v2_bad_date", "v2_bad_amount"})
              => ret.exc = "ValueError"
        /\ (file_format_version = 2 /\ ret.file \in {"v2", "v2_full"}
              /\ target_journal = "zero") => ret.exc = "ZeroDivisionError"

\* the V2 file with a record and no Endsaldo row has been parsed as V2 and
\* extract has raised
C6_Witness ==
    /\ ExtractDone
    /\ ret.file = "v2_no_endsaldo"
    /\ file_format_version = 2
    /\ ret.exc = "TypeError"
    /\ ret.val = << >>

\* C7: when the most recent identify call reported its file as not
\* recognized, extract on that file fails with the unknown-format fault.
C7_ExtractAfterFailedIdentify ==
    (ExtractDone /\ identified.file = ret.file /\ ~identified.result) =>
        ret.exc = "IOError"

\* a step of the V1 parser on a line after the header
V1Step == pc = "parse" /\ ParserOf(file_format_version) = 1 /\ ~locals.header /\ MoreLines

Emitted(l) == <<l.buchungstag, l.auftraggeber_empfaenger, l.verwendungszweck, l.betrag,
                l.kontostand, l.linenumbers>>

LeadingFieldEmpty(line) == line = "\n" \/ SubSeq(line, 1, 1) = ";"

\* C9: in every parser a row after the header whose leading field is empty
\* is skipped: no record, no closing balance, no error.
C9_EmptyRowsSkipped ==
    [][ ( /\ pc = "parse"
          /\ identified = [file |-> file, result |-> TRUE]
          /\ ~locals.header
          /\ MoreLines
          /\ LeadingFieldEmpty(NextLine) ) =>
          /\ pc' = "parse"
          /\ Emitted(locals') = Emitted(locals)
          /\ locals'.endsaldo = locals.endsaldo
      ]_vars

====
